---- MODULE Spec2Model ----
(***************************************************************************)
(* A model of the cached, paginated query execution layer of               *)
(* PMO_Portfolio_V2: backend/cache_service.py (two-tier cache),            *)
(* backend/pagination_service.py (query rewriting, page metadata) and      *)
(* backend/databricks_client.py (the orchestrator and its connection).     *)
(*                                                                         *)
(* Text is modelled as a sequence of tokens (each token a run of           *)
(* characters), so that concatenation is \o and a prefix is SubSeq.        *)
(* Python values are records [kind, items, page]; a row is a sequence of   *)
(* fields [col, t, v].                                                     *)
(***************************************************************************)
EXTENDS Integers, Sequences, FiniteSets, TLC

VARIABLES
    pc,            \* "new" before CacheService() is constructed, then "ready" or "crashed"
    redis_client,  \* CacheService.redis_client: NoClient (None) or "client"
    disk_cache,    \* CacheService.disk_cache: NoClient (None) or "cache"
    redisStore,    \* the Redis server's entries: key -> [val, exp]
    diskStore,     \* the cache directory's entries: key -> [val, exp]
    now,           \* the clock, in seconds
    init,          \* what the constructor did (see DiskInit, Construct)
    primaryFailed, \* the primary tier has failed, at construction or on a request
    derive,        \* the inputs and results of a key derivation
    connection,    \* DatabricksClient.connection: NoClient (None), "conn" or a session
    last,          \* the outcome of the most recent call
    calls,         \* the request threads: where each is in its call of the client
    sessions       \* the connections sql.connect has handed out, and their state

vars == <<pc, redis_client, disk_cache, redisStore, diskStore, now, init,
          primaryFailed, derive, connection, last, calls, sessions>>

----------------------------------------------------------------------------
\* Bounds of the model.

\* The clock runs from 0 to MaxTime.
MaxTime == 2

\* Program constants.
default_ttl == 300
default_page_size == 50
max_page_size == 200
\* cache_ttl of execute_query when the caller passes none.
default_cache_ttl == 1800

\* No request thread is in the client and sql.connect has handed out nothing.
NoCalls == <<>>
NoSessions == <<>>

NoClient == "None"

----------------------------------------------------------------------------
\* Python values.

NoPage == [current_page |-> 0, page_size |-> 0, total_count |-> 0, total_pages |-> 0,
           has_next |-> FALSE, has_previous |-> FALSE,
           next_page |-> [none |-> TRUE, n |-> 0],
           previous_page |-> [none |-> TRUE, n |-> 0]]

PyNone == [kind |-> "None", items |-> <<>>, page |-> NoPage]
PyList(rows) == [kind |-> "list", items |-> rows, page |-> NoPage]
\* {"data": rows, "pagination": meta}
PyPage(rows, meta) == [kind |-> "dict", items |-> rows, page |-> meta]

\* bool(value): None and empty containers are falsy; the paginated dict has
\* two keys and is always truthy.
Truthy(v) ==
    CASE v.kind = "None" -> FALSE
      [] v.kind = "list" -> Len(v.items) > 0
      [] OTHER -> TRUE

\* One column "c" holding an int, and the same holding a datetime.
IntField == [col |-> "c", t |-> "int", v |-> 1]
DateField == [col |-> "c", t |-> "datetime", v |-> 2]
RowInt == <<IntField>>
RowDate == <<DateField>>

\* The row sets the warehouse may return.
RowSets == {<<>>, <<RowInt>>, <<RowDate>>}

\* json.dumps(data, default=str): a value JSON has no type for is written as
\* the string str(value); json.loads reads the text back.
JsonNative == {"int", "str", "bool", "None"}
JsonField(f) == IF f.t \in JsonNative THEN f ELSE [f EXCEPT !.t = "str"]
JsonRow(r) == [i \in DOMAIN r |-> JsonField(r[i])]
JsonDumps(v) == [json |-> [v EXCEPT !.items = [i \in DOMAIN v.items |-> JsonRow(v.items[i])]]]
JsonLoads(text) == text.json

----------------------------------------------------------------------------
\* Key derivation.

\* str(dict): the items in insertion order.  A mapping is a sequence of
\* <<key, value>> pairs in insertion order.
RECURSIVE StrItems(_)
StrItems(p) ==
    IF p = <<>> THEN <<>>
    ELSE <<p[1][1], ": ", p[1][2]>> \o (IF Len(p) > 1 THEN <<", ">> ELSE <<>>) \o StrItems(Tail(p))
StrDict(p) == <<"{">> \o StrItems(p) \o <<"}">>

\* hashlib.md5(text).hexdigest(): modelled as collision-free.
Md5Hex(text) == <<"md5(">> \o text \o <<")">>

KeyPrefix == <<"pmo_query_">>

\* CacheService._generate_key: params None or {} both print as "{}".
GenerateKey(query, params) ==
    LET key_data == query \o <<"_">> \o StrDict(params)
    IN  KeyPrefix \o Md5Hex(key_data)

\* The key string execute_query builds before it calls the cache.
\* An execute_query that reads and writes the cache under the query text
\* alone, as execute_query_unlimited does.
QueryTextAsCacheKey(query, parameters) == query

ExecuteQueryCacheKey(query, parameters) ==
    query \o <<"_">> \o (IF parameters /= <<>> THEN StrDict(parameters) ELSE <<>>)

----------------------------------------------------------------------------
\* The two stores.

NoEntry == [has |-> FALSE, val |-> PyNone]

Held(store, key) ==
    IF key \in DOMAIN store /\ now < store[key].exp
    THEN [has |-> TRUE, val |-> store[key].val]
    ELSE NoEntry

Put(store, key, val, exp) ==
    [k \in DOMAIN store \cup {key} |-> IF k = key THEN [val |-> val, exp |-> exp] ELSE store[k]]

Drop(store, keys) == [k \in DOMAIN store \ keys |-> store[k]]

\* redis GET: the JSON text of a live entry, or None.
RedisGet(rs, key) == Held(rs, key)

\* redis SETEX key ttl text.
RedisSetex(rs, key, ttl, text) == Put(rs, key, text, now + ttl)

\* text contains pat as a run of consecutive tokens.
Contains(text, pat) ==
    \E i \in 0..(Len(text) - Len(pat)) : SubSeq(text, i + 1, i + Len(pat)) = pat

\* KEYS * : every live key, whatever the pattern.
RedisKeysAll(rs, pattern) == {k \in DOMAIN rs : now < rs[k].exp}

\* redis KEYS *pattern*: the live keys that contain the pattern.  A key is
\* the prefix "pmo_query_" and a hex digest: a pattern taken from the prefix
\* matches every key, the digest of a key matches that key, and a pattern
\* with a character that is no hex digit and not in the prefix matches none.
PatAll == KeyPrefix
PatNoMatch == <<"hierarchy">>
PatDigest(query) == Md5Hex(query \o <<"_">> \o StrDict(<<>>))
RedisKeys(rs, pattern) ==
    {k \in DOMAIN rs : now < rs[k].exp /\ Contains(k, pattern)}

\* diskcache Cache.get(key): the value of an entry that has not expired,
\* else the default None.
DiskGet(ds, key) == Held(ds, key).val

\* diskcache Cache.set(key, value, expire): expire is the number of seconds
\* until the item expires and the library computes time.time() + expire;
\* with any other kind of argument that addition raises TypeError before
\* anything is stored.
DiskCacheSet(ds, key, data, expire) ==
    IF expire.type = "seconds"
    THEN [raised |-> FALSE, store |-> Put(ds, key, data, now + expire.n)]
    ELSE [raised |-> TRUE, store |-> ds]

\* The expire argument set() passes: datetime.now() + timedelta(seconds=ttl).
ExpireArgument(ttl) == [type |-> "datetime", n |-> now + ttl]

\* bool(self.disk_cache): Cache defines __len__ (the count of items, expired
\* ones included, read from the store) and no __bool__, so an empty cache is
\* falsy.
DiskTruthy(ds) == Cardinality(DOMAIN ds) > 0

----------------------------------------------------------------------------
\* CacheService.

\* A constructor that keeps the client after a failed ping.
RedisInitKeepsClient(imported, pingOk) == IF imported THEN "client" ELSE NoClient

\* __init__, the Redis part: the client is kept only when the import and the
\* ping both worked.
RedisInit(imported, pingOk) == IF imported /\ pingOk THEN "client" ELSE NoClient

\* A constructor that does not disable the tier when the retry fails.
DiskInitKeepsBrokenCache(init1Ok, init2Ok) ==
    [disk_cache |-> "cache", diskInits |-> IF init1Ok THEN 1 ELSE 2, purged |-> ~init1Ok]

\* __init__, the disk part: dc.Cache(cache_dir), and after a failure the
\* purge of cache.db* and one more dc.Cache(cache_dir).
DiskInit(init1Ok, init2Ok) ==
    IF init1Ok THEN [disk_cache |-> "cache", diskInits |-> 1, purged |-> FALSE]
    ELSE IF init2Ok THEN [disk_cache |-> "cache", diskInits |-> 2, purged |-> TRUE]
    ELSE [disk_cache |-> NoClient, diskInits |-> 2, purged |-> TRUE]

\* get(), on stores rs and ds.  rFail: the Redis call raises; dLenFail: the
\* store fails while bool(self.disk_cache) reads its count (outside the
\* try); dFail: disk_cache.get raises.
CacheGetOn(rs, ds, key, rFail, dLenFail, dFail) ==
    LET useR    == redis_client /= NoClient
        rErr    == useR /\ rFail
        cachedR == IF useR /\ ~rErr THEN RedisGet(rs, key) ELSE NoEntry
        \* `if cached:` on the JSON text, which is never the empty string
        rHit    == cachedR.has
        useD    == ~rHit /\ disk_cache /= NoClient
        lenErr  == useD /\ dLenFail
        tryD    == useD /\ ~lenErr /\ DiskTruthy(ds)
        dErr    == tryD /\ dFail
        cachedD == IF tryD /\ ~dErr THEN DiskGet(ds, key) ELSE PyNone
        \* `if cached:` on the stored value
        dHit    == Truthy(cachedD)
    IN  [ret |-> IF lenErr THEN PyNone
                 ELSE IF rHit THEN JsonLoads(cachedR.val)
                 ELSE IF dHit THEN cachedD ELSE PyNone,
         raised |-> lenErr, usedRedis |-> useR, usedDisk |-> useD,
         redisFailed |-> rErr, diskFailed |-> lenErr \/ dErr]

\* set(), on stores rs and ds.  ttlArg 0 stands for None as well: both take
\* the default in `ttl or self.default_ttl`.
CacheSetOn(rs, ds, key, data, ttlArg, rFail, dLenFail) ==
    LET ttl     == IF ttlArg /= 0 THEN ttlArg ELSE default_ttl
        useR    == redis_client /= NoClient
        rErr    == useR /\ rFail
        rStored == useR /\ ~rErr
        rs2     == IF rStored THEN RedisSetex(rs, key, ttl, JsonDumps(data)) ELSE rs
        useD    == disk_cache /= NoClient
        lenErr  == useD /\ dLenFail
        tryD    == useD /\ ~lenErr /\ DiskTruthy(ds)
        dres    == IF tryD THEN DiskCacheSet(ds, key, data, ExpireArgument(ttl))
                   ELSE [raised |-> FALSE, store |-> ds]
        dStored == tryD /\ ~dres.raised
    IN  [ok |-> ~lenErr /\ (rStored \/ dStored),
         raised |-> lenErr, usedRedis |-> useR, usedDisk |-> useD,
         redisFailed |-> rErr, diskFailed |-> lenErr \/ (tryD /\ dres.raised),
         redisStored |-> rStored, diskAttempted |-> tryD, diskStored |-> dStored,
         ttl |-> ttl, rs |-> rs2, ds |-> dres.store]

\* clear_cache(): pattern <<>> stands for None and for "", both falsy.  The
\* whole body is inside the try.
CacheClearOn(rs, ds, pattern, rFail, dLenFail, dFail) ==
    LET useR   == redis_client /= NoClient /\ pattern /= <<>>
        rErr   == useR /\ rFail
        keys   == IF useR /\ ~rErr THEN RedisKeys(rs, pattern) ELSE {}
        useD   == ~rErr /\ pattern = <<>> /\ disk_cache /= NoClient
        lenErr == useD /\ dLenFail
        tryD   == useD /\ ~lenErr /\ DiskTruthy(ds)
        dErr   == tryD /\ dFail
    IN  [ok |-> ~(rErr \/ lenErr \/ dErr),
         raised |-> FALSE, usedRedis |-> useR, usedDisk |-> useD,
         redisFailed |-> rErr, diskFailed |-> lenErr \/ dErr,
         rs |-> Drop(rs, keys),
         ds |-> IF tryD /\ ~dErr THEN <<>> ELSE ds]

----------------------------------------------------------------------------
\* Inputs.

QShort == <<"SELECT * FROM t">>

\* The query texts (cache names) the callers of get/set pass.
ServiceQueries == {QShort}

\* The values the callers of set pass: an empty row set, rows of JSON types,
\* rows holding a datetime.
ServiceValues == {PyList(<<>>), PyList(<<RowInt>>), PyList(<<RowDate>>)}

\* ttl arguments: 0 (or None: the default), 1 and 2 seconds.
TTLs == {0, 1, 2}

QOther == <<"SELECT * FROM u">>

Patterns == {<<>>, PatAll, PatNoMatch, PatDigest(QShort), PatDigest(QOther)}

\* What the Redis server may hold when the process starts: entries of
\* earlier processes under the keys of two queries.
PreloadedKeys == {GenerateKey(QShort, <<>>), GenerateKey(QOther, <<>>)}
RedisPreloads ==
    UNION {[K -> {[val |-> JsonDumps(PyList(<<RowInt>>)), exp |-> e] : e \in {1, default_ttl}}] :
             K \in SUBSET PreloadedKeys}

\* What the cache directory may hold when the process starts: nothing, a
\* live entry, or an entry whose value is an empty row set.
DiskPreloads ==
    { <<>>,
      GenerateKey(QShort, <<>>) :> [val |-> PyList(<<RowInt>>), exp |-> 2],
      GenerateKey(QShort, <<>>) :> [val |-> PyList(<<>>), exp |-> default_ttl] }

----------------------------------------------------------------------------
\* The record of the most recent call.

NoObs ==
    [op |-> "none", key |-> <<>>, data |-> PyNone, ttl |-> 0, at |-> 0,
     ret |-> PyNone, ok |-> FALSE, raised |-> "no",
     usedRedis |-> FALSE, usedDisk |-> FALSE,
     redisFailed |-> FALSE, diskFailed |-> FALSE,
     redisStored |-> FALSE, diskAttempted |-> FALSE, diskStored |-> FALSE,
     use_cache |-> FALSE, cached |-> PyNone, connects |-> 0, executes |-> 0,
     sent |-> <<>>, rows |-> <<>>, query |-> <<>>, parameters |-> <<>>,
     page |-> 0, page_size |-> 0, total_count |-> 0, writes |-> 0, wttl |-> 0,
     failed |-> "no", matching |-> 0]

Call(op, key) == [NoObs EXCEPT !.op = op, !.key = key, !.at = now]

----------------------------------------------------------------------------
\* The state machine of the cache service.

NoInit == [redisFailed |-> FALSE, diskInits |-> 0, purged |-> FALSE,
           firstFailed |-> FALSE, retryFailed |-> FALSE]

NoDerive == [done |-> FALSE, query |-> <<>>, p1 |-> <<>>, p2 |-> <<>>,
             key1 |-> <<>>, key2 |-> <<>>, ekey1 |-> <<>>, ekey2 |-> <<>>]

Init ==
    /\ pc = "new"
    /\ redis_client = NoClient
    /\ disk_cache = NoClient
    /\ redisStore = <<>>
    /\ diskStore \in DiskPreloads
    /\ now = 0
    /\ init = NoInit
    /\ primaryFailed = FALSE
    /\ derive = NoDerive
    /\ connection = NoClient
    /\ last = NoObs
    /\ calls = NoCalls
    /\ sessions = NoSessions

\* cache_service = CacheService(...): os.makedirs is outside every try, so
\* its failure ends the import of the module.
Construct ==
    /\ pc = "new"
    /\ \E imported, pingOk, makedirsOk, init1Ok, init2Ok \in BOOLEAN :
         LET d == DiskInit(init1Ok, init2Ok)
         IN  /\ redis_client' = RedisInit(imported, pingOk)
             /\ IF makedirsOk
                THEN /\ pc' = "ready"
                     /\ disk_cache' = d.disk_cache
                     /\ init' = [redisFailed |-> ~(imported /\ pingOk),
                                 diskInits |-> d.diskInits, purged |-> d.purged,
                                 firstFailed |-> ~init1Ok,
                                 retryFailed |-> ~init1Ok /\ ~init2Ok]
                     /\ primaryFailed' = ~(imported /\ pingOk)
                     /\ diskStore' = IF d.purged THEN <<>> ELSE diskStore
                     /\ last' = [NoObs EXCEPT !.op = "init"]
                ELSE /\ pc' = "crashed"
                     /\ last' = [NoObs EXCEPT !.op = "init", !.raised = "cache"]
                     /\ UNCHANGED <<disk_cache, init, diskStore, primaryFailed>>
    /\ UNCHANGED <<redisStore, now, derive, connection, calls, sessions>>

Get ==
    /\ pc = "ready"
    /\ \E query \in ServiceQueries, rFail, dLenFail, dFail \in BOOLEAN :
         LET key == GenerateKey(query, <<>>)
             r   == CacheGetOn(redisStore, diskStore, key, rFail, dLenFail, dFail)
         IN  /\ last' = [Call("get", key) EXCEPT
                           !.ret = r.ret, !.raised = IF r.raised THEN "cache" ELSE "no",
                           !.usedRedis = r.usedRedis, !.usedDisk = r.usedDisk,
                           !.redisFailed = r.redisFailed, !.diskFailed = r.diskFailed]
             /\ primaryFailed' = (primaryFailed \/ r.redisFailed)
    /\ UNCHANGED <<pc, redis_client, disk_cache, redisStore, diskStore, now, init, derive, connection, calls, sessions>>

Set ==
    /\ pc = "ready"
    /\ \E query \in ServiceQueries, data \in ServiceValues, ttl \in TTLs,
          rFail, dLenFail \in BOOLEAN :
         LET key == GenerateKey(query, <<>>)
             r   == CacheSetOn(redisStore, diskStore, key, data, ttl, rFail, dLenFail)
         IN  /\ last' = [Call("set", key) EXCEPT
                           !.data = data, !.ttl = ttl,
                           !.ok = r.ok, !.raised = IF r.raised THEN "cache" ELSE "no",
                           !.usedRedis = r.usedRedis, !.usedDisk = r.usedDisk,
                           !.redisFailed = r.redisFailed, !.diskFailed = r.diskFailed,
                           !.redisStored = r.redisStored,
                           !.diskAttempted = r.diskAttempted, !.diskStored = r.diskStored]
             /\ redisStore' = r.rs
             /\ diskStore' = r.ds
             /\ primaryFailed' = (primaryFailed \/ r.redisFailed)
    /\ UNCHANGED <<pc, redis_client, disk_cache, now, init, derive, connection, calls, sessions>>

ClearCache ==
    /\ pc = "ready"
    /\ \E pattern \in Patterns, rFail, dLenFail, dFail \in BOOLEAN :
         LET r == CacheClearOn(redisStore, diskStore, pattern, rFail, dLenFail, dFail)
         IN  /\ last' = [Call("clear", pattern) EXCEPT
                           !.ok = r.ok,
                           !.usedRedis = r.usedRedis, !.usedDisk = r.usedDisk,
                           !.redisFailed = r.redisFailed, !.diskFailed = r.diskFailed]
             /\ redisStore' = r.rs
             /\ diskStore' = r.ds
             /\ primaryFailed' = (primaryFailed \/ r.redisFailed)
    /\ UNCHANGED <<pc, redis_client, disk_cache, now, init, derive, connection, calls, sessions>>

\* A second passes.  Redis drops the keys whose time has come; diskcache
\* keeps an expired row until it is culled.
Tick ==
    /\ now < MaxTime
    /\ now' = now + 1
    /\ redisStore' = Drop(redisStore, {k \in DOMAIN redisStore : redisStore[k].exp <= now + 1})
    /\ UNCHANGED <<pc, redis_client, disk_cache, diskStore, init, primaryFailed, derive,
                   connection, last,
                   calls, sessions>>

NextCache == Construct \/ Get \/ Set \/ ClearCache \/ Tick

SpecCache == Init /\ [][NextCache]_vars

\* clear_cache on a Redis server that already holds entries.
InitClear ==
    /\ pc = "new"
    /\ redis_client = NoClient
    /\ disk_cache = NoClient
    /\ redisStore \in RedisPreloads
    /\ diskStore \in DiskPreloads
    /\ now = 0
    /\ init = NoInit
    /\ primaryFailed = FALSE
    /\ derive = NoDerive
    /\ connection = NoClient
    /\ last = NoObs
    /\ calls = NoCalls
    /\ sessions = NoSessions

NextClear == Construct \/ ClearCache \/ Tick

SpecClear == InitClear /\ [][NextClear]_vars

----------------------------------------------------------------------------
\* Query text.

\* len(token) for the tokens that stand for a long run of characters; every
\* other token is counted as one character.
LongWhere == " WHERE id IN (<1200 characters>)"
HugeWhere == " WHERE id IN (<2100 characters>)"
HugeList == "(<2100 characters>)"
TokLen(tok) ==
    CASE tok = LongWhere -> 1200
      [] tok = HugeWhere -> 2100
      [] tok = HugeList -> 2100
      [] OTHER -> 1

RECURSIVE TextLen(_)
TextLen(text) == IF text = <<>> THEN 0 ELSE TokLen(Head(text)) + TextLen(Tail(text))

\* 'LIMIT' in token.upper(): every run of the letters l-i-m-i-t, in any
\* case, is a token of its own.
IsLimit(tok) == tok \in {"LIMIT", "limit", "Limit"}
HasLimit(text) == \E i \in DOMAIN text : IsLimit(text[i])
\* text.upper().rfind('LIMIT'), as the index of the token
RFindLimit(text) ==
    CHOOSE i \in DOMAIN text : IsLimit(text[i]) /\ \A j \in DOMAIN text : IsLimit(text[j]) => j <= i

Whitespace == {" ", "\n"}

\* text.rstrip() and text.rstrip(';')
RECURSIVE RStrip(_, _)
RStrip(text, chars) ==
    IF text /= <<>> /\ text[Len(text)] \in chars
    THEN RStrip(SubSeq(text, 1, Len(text) - 1), chars)
    ELSE text

Min(a, b) == IF a <= b THEN a ELSE b
Max(a, b) == IF a >= b THEN a ELSE b

----------------------------------------------------------------------------
\* PaginationService.

\* `page_size or self.default_page_size`, capped: 0 stands for None as well.
EffectivePageSize(page_size) ==
    Min(IF page_size /= 0 THEN page_size ELSE default_page_size, max_page_size)

add_pagination_to_query(query, page, page_size) ==
    LET ps     == EffectivePageSize(page_size)
        pg     == Max(1, page)
        offset == (pg - 1) * ps
        base   == IF HasLimit(query)
                  THEN RStrip(SubSeq(query, 1, RFindLimit(query) - 1), Whitespace)
                  ELSE query
    IN  RStrip(base, {";"}) \o
        <<"\n", "LIMIT", " ", ToString(ps), " ", "OFFSET", " ", ToString(offset), ";">>

\* math.ceil(a / b) for a >= 0 and b /= 0
CeilDiv(a, b) == IF b > 0 THEN (a + b - 1) \div b ELSE -(a \div (-b))

\* create_pagination_metadata: the division raises ZeroDivisionError when
\* page_size is 0 and there are records.
create_pagination_metadata(total_count, page, page_size) ==
    IF total_count > 0 /\ page_size = 0 THEN [raised |-> TRUE, meta |-> NoPage]
    ELSE
    LET total_pages  == IF total_count > 0 THEN CeilDiv(total_count, page_size) ELSE 0
        has_next     == page < total_pages
        has_previous == page > 1
    IN  [raised |-> FALSE,
         meta |-> [current_page |-> page, page_size |-> page_size,
                   total_count |-> total_count, total_pages |-> total_pages,
                   has_next |-> has_next, has_previous |-> has_previous,
                   next_page |-> IF has_next THEN [none |-> FALSE, n |-> page + 1]
                                 ELSE [none |-> TRUE, n |-> 0],
                   previous_page |-> IF has_previous THEN [none |-> FALSE, n |-> page - 1]
                                     ELSE [none |-> TRUE, n |-> 0]]]

\* data[start:end]: a negative index counts from the end, and both are
\* clamped to the list.
SliceIndex(i, n) == IF i < 0 THEN Max(0, i + n) ELSE Min(i, n)
PySlice(data, start, end) ==
    LET lo == SliceIndex(start, Len(data))
        hi == SliceIndex(end, Len(data))
    IN  IF lo < hi THEN SubSeq(data, lo + 1, hi) ELSE <<>>

paginate_list(data, page, page_size) ==
    LET ps        == EffectivePageSize(page_size)
        pg        == Max(1, page)
        start_idx == (pg - 1) * ps
        end_idx   == start_idx + ps
        metadata  == create_pagination_metadata(Len(data), pg, ps)
    IN  [raised |-> metadata.raised,
         value |-> PyPage(PySlice(data, start_idx, end_idx), metadata.meta)]

----------------------------------------------------------------------------
\* The functions of PaginationService on their own: each action draws its
\* arguments and applies one function once.

\* A list of n distinct items.
Item(i) == <<[col |-> "c", t |-> "int", v |-> i]>>
ListOf(n) == [i \in 1..n |-> Item(i)]

\* Lengths of the lists and totals: none, one, ten, and more than
\* max_page_size.
Counts == {0, 1, 10, max_page_size + 1}
PageArgs == {-1, 0, 1, 2, 3}
\* page_size arguments; 0 stands for None as well
PageSizeArgs == {-5, -1, 0, 1, 5, 10, max_page_size, max_page_size + 300}

\* Query texts: plain, with a trailing semicolon and whitespace, with a
\* trailing LIMIT clause in either case, with LIMIT and OFFSET, and with the
\* letters "limit" inside a column name, a string literal and a subquery.
SelectT == "SELECT * FROM t"
RewriteQueries ==
    { <<SelectT>>,
      <<SelectT, ";">>,
      <<SelectT, " ", ";">>,
      <<SelectT, ";", "\n">>,
      <<SelectT, " ", "LIMIT", " ", "10">>,
      <<SelectT, "\n", "limit", " ", "10", ";">>,
      <<SelectT, "\n", "LIMIT", " ", "10", " ", "OFFSET", " ", "20", ";">>,
      <<"SELECT credit_", "limit", " FROM t">>,
      <<"SELECT credit_", "limit", " FROM t", " ", "LIMIT", " ", "10">>,
      <<"SELECT * FROM t WHERE note = 'no ", "limit", "'">>,
      <<"SELECT * FROM (SELECT * FROM t ", "LIMIT", " ", "5", ") s WHERE a = 1">> }

InitPage ==
    /\ pc = "pagination"
    /\ redis_client = NoClient
    /\ disk_cache = NoClient
    /\ redisStore = <<>>
    /\ diskStore = <<>>
    /\ now = 0
    /\ init = NoInit
    /\ primaryFailed = FALSE
    /\ derive = NoDerive
    /\ connection = NoClient
    /\ last = NoObs
    /\ calls = NoCalls
    /\ sessions = NoSessions

Unchanged ==
    UNCHANGED <<pc, redis_client, disk_cache, redisStore, diskStore, now, init,
                primaryFailed, derive, connection, calls, sessions>>

AddPaginationToQuery ==
    /\ pc = "pagination" /\ last.op = "none"
    /\ \E query \in RewriteQueries, page \in PageArgs, page_size \in PageSizeArgs :
         last' = [NoObs EXCEPT !.op = "add_pagination_to_query",
                               !.query = query, !.page = page, !.page_size = page_size,
                               !.sent = add_pagination_to_query(query, page, page_size)]
    /\ Unchanged

CreatePaginationMetadata ==
    /\ pc = "pagination" /\ last.op = "none"
    /\ \E total_count \in Counts, page \in PageArgs, page_size \in PageSizeArgs :
         \E r \in {create_pagination_metadata(total_count, page, page_size)} :
           last' = [NoObs EXCEPT !.op = "create_pagination_metadata",
                                 !.total_count = total_count,
                                 !.page = page, !.page_size = page_size,
                                 !.raised = IF r.raised THEN "pagination" ELSE "no",
                                 !.ret = IF r.raised THEN PyNone ELSE PyPage(<<>>, r.meta)]
    /\ Unchanged

PaginateList ==
    /\ pc = "pagination" /\ last.op = "none"
    /\ \E n \in Counts, page \in PageArgs, page_size \in PageSizeArgs :
         \E r \in {paginate_list(ListOf(n), page, page_size)} :
           last' = [NoObs EXCEPT !.op = "paginate_list",
                                 !.data = PyList(ListOf(n)), !.total_count = n,
                                 !.page = page, !.page_size = page_size,
                                 !.raised = IF r.raised THEN "pagination" ELSE "no",
                                 !.ret = IF r.raised THEN PyNone ELSE r.value]
    /\ Unchanged

NextPage == AddPaginationToQuery \/ CreatePaginationMetadata \/ PaginateList

SpecPage == InitPage /\ [][NextPage]_vars

----------------------------------------------------------------------------
\* DatabricksClient.

\* The row sets the warehouse returns to the client calls.
ClientRows == {<<>>, <<RowInt>>}

\* A call that always goes to the warehouse.
NeverServedFromCache(use_cache, cached) == FALSE

\* `if use_cache:` ... `if cached_result is not None: return cached_result`
ServedFromCache(use_cache, cached) == use_cache /\ cached /= PyNone

\* The automatic LIMIT of execute_query on a query of more than 2000
\* characters without one.
FilterIn == " WHERE INV_EXT_ID IN "
ImplicitLimit(query) ==
    IF TextLen(query) > 2000 /\ ~HasLimit(query)
    THEN RStrip(query, {";"}) \o
         <<"\n", "LIMIT", " ",
           IF \E i \in DOMAIN query : query[i] = FilterIn THEN "15000" ELSE "100", ";">>
    ELSE query

\* `if not self.connection: self.connect()`, then cursor(), execute, fetchall.
RemoteRun(conn, query, env) ==
    LET needConnect == conn = NoClient
        connFail    == needConnect /\ ~env.connectOk
        execFail    == ~connFail /\ ~env.execOk
    IN  [raised |-> connFail \/ execFail,
         failed |-> IF connFail THEN "connect" ELSE IF execFail THEN "execute" ELSE "no",
         connects |-> IF needConnect THEN 1 ELSE 0,
         executes |-> IF connFail THEN 0 ELSE 1,
         conn |-> IF needConnect /\ env.connectOk THEN "conn" ELSE conn,
         sent |-> IF connFail THEN <<>> ELSE query,
         rows |-> IF connFail \/ execFail THEN <<>> ELSE env.rows]

\* The outcome of a client call that did nothing yet.
Outcome(rs, ds, conn) ==
    [ret |-> PyNone, raised |-> "no", cached |-> PyNone, connects |-> 0, executes |-> 0,
     sent |-> <<>>, rows |-> <<>>, ok |-> FALSE,
     usedRedis |-> FALSE, usedDisk |-> FALSE, redisFailed |-> FALSE, diskFailed |-> FALSE,
     redisStored |-> FALSE, diskAttempted |-> FALSE, diskStored |-> FALSE,
     writes |-> 0, wttl |-> 0, failed |-> "no",
     rs |-> rs, ds |-> ds, conn |-> conn]

\* The element of a one-element set: {F(x) : x \in {e}} computes e once.
Only(S) == CHOOSE x \in S : TRUE

\* What a call has observed once its cache read g is done.
AfterRead(o0, use_cache, g) ==
    IF use_cache
    THEN [o0 EXCEPT !.cached = IF g.raised THEN PyNone ELSE g.ret,
                    !.raised = IF g.raised THEN "cache" ELSE "no",
                    !.usedRedis = g.usedRedis, !.usedDisk = g.usedDisk,
                    !.redisFailed = g.redisFailed, !.diskFailed = g.diskFailed]
    ELSE o0

\* What a call has observed once its cache write s is done; value is what it
\* returns when the write did not raise.  writes counts the calls of
\* cache_service.set and wttl is the ttl of the latest.
AfterWrite(o, s, value) ==
    [o EXCEPT !.ret = IF s.raised THEN PyNone ELSE value,
              !.raised = IF s.raised THEN "cache" ELSE "no",
              !.ok = s.ok,
              !.usedRedis = o.usedRedis \/ s.usedRedis,
              !.usedDisk = o.usedDisk \/ s.usedDisk,
              !.redisFailed = o.redisFailed \/ s.redisFailed,
              !.diskFailed = o.diskFailed \/ s.diskFailed,
              !.redisStored = s.redisStored,
              !.diskAttempted = s.diskAttempted, !.diskStored = s.diskStored,
              !.writes = o.writes + 1, !.wttl = s.ttl,
              !.rs = s.rs, !.ds = s.ds]

\* A handler that swallows the error of the connector and returns no rows.
ReturnNoRows(o) == [o EXCEPT !.ret = PyList(<<>>)]

\* `except Exception as e: logger.error(...); raise`, and the error of
\* connect(), which is raised outside the try.
Reraise(o) == [o EXCEPT !.raised = "remote"]

\* `if use_cache and results:`
CachesResult(use_cache, results) == use_cache /\ results /= <<>>

\* The end of execute_query and execute_query_unlimited, from the cache read
\* o1, the remote call and the cache write s of a non-empty result.  The
\* read is outside the try and the write inside it, and the except re-raises.
FinishRun(o1, use_cache, remote, s) ==
    LET o2 == [o1 EXCEPT !.connects = remote.connects, !.executes = remote.executes,
                         !.sent = remote.sent, !.rows = remote.rows, !.conn = remote.conn,
                         !.failed = remote.failed]
    IN  IF o1.raised /= "no" THEN o1
        ELSE IF ServedFromCache(use_cache, o1.cached) THEN [o1 EXCEPT !.ret = o1.cached]
        ELSE IF remote.raised THEN Reraise(o2)
        ELSE IF CachesResult(use_cache, remote.rows) THEN AfterWrite(o2, s, PyList(remote.rows))
        ELSE [o2 EXCEPT !.ret = PyList(remote.rows)]

\* The body shared by execute_query and execute_query_unlimited: the cache
\* read under `name`, the remote call with the text `sent`, the cache write.
RunCached(rs, ds, conn, name, sent, use_cache, cache_ttl, env) ==
    Only({ Only({ FinishRun(o1, use_cache, remote, s) :
                    s \in {CacheSetOn(rs, ds, key, PyList(remote.rows), cache_ttl,
                                      env.rFailWrite, env.dLenFail)} }) :
             key \in {GenerateKey(name, <<>>)},
             o1 \in {AfterRead(Outcome(rs, ds, conn), use_cache,
                               CacheGetOn(rs, ds, GenerateKey(name, <<>>),
                                          env.rFailRead, env.dLenFail, env.dFail))},
             remote \in {RemoteRun(conn, sent, env)} })

execute_query(rs, ds, conn, query, parameters, use_cache, cache_ttl, env) ==
    RunCached(rs, ds, conn, ExecuteQueryCacheKey(query, parameters), ImplicitLimit(query),
              use_cache, cache_ttl, env)

execute_query_unlimited(rs, ds, conn, query, use_cache, cache_ttl, env) ==
    RunCached(rs, ds, conn, query, query, use_cache, cache_ttl, env)

\* cache_params = {"page": page, "page_size": page_size}
CacheParams(page, page_size) ==
    << <<"'page'", ToString(page)>>, <<"'page_size'", ToString(page_size)>> >>

\* The page execute_paginated_query builds from the rows of a query it sent
\* with LIMIT and OFFSET: the total is an estimate.
EstimatedPage(results, page, page_size) ==
    LET total_count == IF Len(results) < page_size
                       THEN (page - 1) * page_size + Len(results)
                       ELSE Len(results) * 10
        metadata == create_pagination_metadata(total_count, page, page_size)
    IN  [raised |-> metadata.raised, value |-> PyPage(results, metadata.meta)]

\* The end of execute_paginated_query, from the cache read o1, the inner
\* execute_query, the page built from its rows and the cache write s.
FinishPaginated(o1, use_cache, inner, built, s) ==
    LET o2 == [o1 EXCEPT !.connects = inner.connects, !.executes = inner.executes,
                         !.sent = inner.sent, !.rows = inner.rows, !.conn = inner.conn,
                         !.usedRedis = o1.usedRedis \/ inner.usedRedis,
                         !.usedDisk = o1.usedDisk \/ inner.usedDisk,
                         !.redisFailed = o1.redisFailed \/ inner.redisFailed,
                         !.diskFailed = o1.diskFailed \/ inner.diskFailed,
                         !.writes = inner.writes, !.wttl = inner.wttl,
                         !.failed = inner.failed,
                         !.rs = inner.rs, !.ds = inner.ds]
    IN  IF o1.raised /= "no" THEN o1
        ELSE IF ServedFromCache(use_cache, o1.cached) THEN [o1 EXCEPT !.ret = o1.cached]
        ELSE IF inner.raised /= "no" THEN [o2 EXCEPT !.raised = inner.raised]
        ELSE IF built.raised THEN [o2 EXCEPT !.raised = "pagination"]
        ELSE IF use_cache THEN AfterWrite(o2, s, built.value)
        ELSE [o2 EXCEPT !.ret = built.value]

execute_paginated_query(rs, ds, conn, query, page, page_size, use_cache, cache_ttl, env) ==
    Only({ Only({ Only({ FinishPaginated(o1, use_cache, inner, built, s) :
                           s \in {CacheSetOn(inner.rs, inner.ds, key, built.value, cache_ttl,
                                             env.rFailWrite, env.dLenFail)} }) :
                    built \in {IF TextLen(query) > 1000
                               THEN EstimatedPage(inner.ret.items, page, page_size)
                               ELSE paginate_list(inner.ret.items, page, page_size)} }) :
             key \in {GenerateKey(query, CacheParams(page, page_size))},
             o1 \in {AfterRead(Outcome(rs, ds, conn), use_cache,
                               CacheGetOn(rs, ds, GenerateKey(query, CacheParams(page, page_size)),
                                          env.rFailRead, env.dLenFail, env.dFail))},
             inner \in {IF TextLen(query) > 1000
                        THEN execute_query(rs, ds, conn,
                                           add_pagination_to_query(query, page, page_size),
                                           <<>>, FALSE, default_cache_ttl, env)
                        ELSE execute_query(rs, ds, conn, query, <<>>,
                                           use_cache, cache_ttl, env)} })

----------------------------------------------------------------------------
\* The state machine of the client on top of the cache service.

QLong == <<"SELECT * FROM t", LongWhere>>

ClientQueries == {QShort}
\* <<query, page, page_size>> of the paginated calls: a short query paged in
\* memory and a long one paged by the warehouse.
PagedCalls == {<<QShort, 1, 1>>, <<QLong, 2, 1>>}
ClientTTLs == {1}

\* What one call meets.  rFailRead / rFailWrite: the Redis request of the
\* cache read / write raises; dLenFail, dFail: as in CacheGetOn; connectOk:
\* sql.connect succeeds; execOk: cursor() and execute succeed; rows: the row
\* set the warehouse returns.  Only the environments that differ in what the
\* call can meet in this state are drawn: a tier the call does not use or
\* that is absent cannot fail, a Redis that failed the read of a call still
\* fails at its write, the count of the disk store is read before its get, a
\* client that holds a connection does not connect, and a failed remote call
\* returns no rows.
RedisFaults(use_cache) ==
    IF use_cache /\ redis_client /= NoClient
    THEN {<<FALSE, FALSE>>, <<FALSE, TRUE>>, <<TRUE, TRUE>>}
    ELSE {<<FALSE, FALSE>>}

DiskFaults(use_cache) ==
    IF use_cache /\ disk_cache /= NoClient
    THEN {<<FALSE, FALSE>>, <<TRUE, FALSE>>, <<FALSE, TRUE>>}
    ELSE {<<FALSE, FALSE>>}

RemoteOutcomes ==
    {<<TRUE, TRUE, rows>> : rows \in ClientRows}
        \cup {<<TRUE, FALSE, <<>>>>}
        \cup (IF connection = NoClient THEN {<<FALSE, TRUE, <<>>>>} ELSE {})

RelevantEnvs(use_cache) ==
    {[rFailRead |-> r[1], rFailWrite |-> r[2], dLenFail |-> d[1], dFail |-> d[2],
      connectOk |-> m[1], execOk |-> m[2], rows |-> m[3]] :
        r \in RedisFaults(use_cache), d \in DiskFaults(use_cache), m \in RemoteOutcomes}

\* A call that meets no failure, and gets `rows` if it reaches the warehouse.
CalmEnv(rows) ==
    [rFailRead |-> FALSE, rFailWrite |-> FALSE, dLenFail |-> FALSE, dFail |-> FALSE,
     connectOk |-> TRUE, execOk |-> TRUE, rows |-> rows]

\* The record of a client call.
Observe(op, key, o) ==
    [Call(op, key) EXCEPT
        !.ret = o.ret, !.raised = o.raised, !.cached = o.cached, !.ok = o.ok,
        !.connects = o.connects, !.executes = o.executes, !.sent = o.sent, !.rows = o.rows,
        !.usedRedis = o.usedRedis, !.usedDisk = o.usedDisk,
        !.redisFailed = o.redisFailed, !.diskFailed = o.diskFailed,
        !.redisStored = o.redisStored,
        !.diskAttempted = o.diskAttempted, !.diskStored = o.diskStored,
        !.writes = o.writes, !.wttl = o.wttl, !.failed = o.failed]

\* The state a client call leaves behind.
Commit(o) ==
    /\ redisStore' = o.rs
    /\ diskStore' = o.ds
    /\ connection' = o.conn
    /\ primaryFailed' = (primaryFailed \/ o.redisFailed)
    /\ UNCHANGED <<pc, redis_client, disk_cache, now, init, derive, calls, sessions>>

ExecuteQueryOf(queries, caching, ttls) ==
    /\ pc = "ready"
    /\ \E query \in queries, use_cache \in caching, cache_ttl \in ttls :
       \E env \in RelevantEnvs(use_cache) :
         \E o \in {execute_query(redisStore, diskStore, connection, query, <<>>,
                                 use_cache, cache_ttl, env)} :
             /\ last' = [Observe("execute_query",
                                 GenerateKey(ExecuteQueryCacheKey(query, <<>>), <<>>), o)
                           EXCEPT !.query = query, !.use_cache = use_cache, !.ttl = cache_ttl]
             /\ Commit(o)

ExecuteQueryUnlimitedOf(queries, caching, ttls) ==
    /\ pc = "ready"
    /\ \E query \in queries, use_cache \in caching, cache_ttl \in ttls :
       \E env \in RelevantEnvs(use_cache) :
         \E o \in {execute_query_unlimited(redisStore, diskStore, connection, query,
                                           use_cache, cache_ttl, env)} :
             /\ last' = [Observe("execute_query_unlimited", GenerateKey(query, <<>>), o)
                           EXCEPT !.query = query, !.use_cache = use_cache, !.ttl = cache_ttl]
             /\ Commit(o)

ExecutePaginatedQuery ==
    /\ pc = "ready"
    /\ \E call \in PagedCalls, use_cache \in BOOLEAN, cache_ttl \in ClientTTLs :
       \E env \in RelevantEnvs(use_cache) :
         LET query     == call[1]
             page      == call[2]
             page_size == call[3]
         IN  \E o \in {execute_paginated_query(redisStore, diskStore, connection, query,
                                          page, page_size, use_cache, cache_ttl, env)} :
             /\ last' = [Observe("execute_paginated_query",
                                 GenerateKey(query, CacheParams(page, page_size)), o)
                           EXCEPT !.query = query, !.use_cache = use_cache, !.ttl = cache_ttl,
                                  !.page = page, !.page_size = page_size]
             /\ Commit(o)

ExecuteQuery == ExecuteQueryOf(ClientQueries, BOOLEAN, ClientTTLs)

ExecuteQueryUnlimited == ExecuteQueryUnlimitedOf(ClientQueries, BOOLEAN, ClientTTLs)

NextClient == Construct \/ ExecuteQuery \/ ExecuteQueryUnlimited \/ ExecutePaginatedQuery

SpecClient == Init /\ [][NextClient]_vars

\* The texts the client sends: calls without caching on queries of every
\* length class, with and without a bounding clause.
QHuge == <<SelectT, HugeWhere>>
QHugeSemicolon == <<SelectT, HugeWhere, ";">>
QHugeFiltered == <<SelectT, FilterIn, HugeList>>
QHugeBounded == <<SelectT, HugeWhere, "\n", "LIMIT", " ", "10">>
QHugeColumn == <<"SELECT credit_", "limit", " FROM t", HugeWhere>>
SentQueries == {QShort, QLong, QHuge, QHugeSemicolon, QHugeFiltered, QHugeBounded, QHugeColumn}

SendQuery == ExecuteQueryOf(SentQueries, {FALSE}, ClientTTLs)

SendQueryUnlimited == ExecuteQueryUnlimitedOf(SentQueries, {FALSE}, ClientTTLs)

NextSend == Construct \/ SendQuery \/ SendQueryUnlimited

SpecSend == Init /\ [][NextSend]_vars

\* The two row-returning calls with every cache_ttl a caller can pass, 0
\* included: what they write to the cache.
WriteTTLs == {0, 1, 2}

WriteQuery == ExecuteQueryOf(ClientQueries, BOOLEAN, WriteTTLs)

WriteQueryUnlimited == ExecuteQueryUnlimitedOf(ClientQueries, BOOLEAN, WriteTTLs)

NextWrite == Construct \/ WriteQuery \/ WriteQueryUnlimited

SpecWrite == Init /\ [][NextWrite]_vars

----------------------------------------------------------------------------
\* Key derivation on its own: two mappings of bounded size are drawn, and
\* DeriveKeys computes the keys of both.

ParamKeys == {"a", "b"}
ParamValues == {"1", "2"}
Pairs == ParamKeys \X ParamValues

\* A dict holds a key once.
DistinctKeys(p) == \A i, j \in DOMAIN p : i /= j => p[i][1] /= p[j][1]

\* The mappings of at most two items, as insertion-ordered item lists.
ParamLists ==
    {<<>>} \cup {<<x>> : x \in Pairs}
           \cup {<<x, y>> : x \in Pairs, y \in Pairs}

ParamMaps == {p \in ParamLists : DistinctKeys(p)}

KeyQueries == {QShort, <<"SELECT * FROM t", " WHERE a = %(a)s">>}

InitKey ==
    /\ pc = "new"
    /\ redis_client = NoClient
    /\ disk_cache = NoClient
    /\ redisStore = <<>>
    /\ diskStore = <<>>
    /\ now = 0
    /\ init = NoInit
    /\ primaryFailed = FALSE
    /\ connection = NoClient
    /\ last = NoObs
    /\ calls = NoCalls
    /\ sessions = NoSessions
    /\ \E q \in KeyQueries, p1, p2 \in ParamMaps :
         derive = [NoDerive EXCEPT !.query = q, !.p1 = p1, !.p2 = p2]

DeriveKeys ==
    /\ ~derive.done
    /\ derive' = [derive EXCEPT
                    !.done = TRUE,
                    !.key1 = GenerateKey(derive.query, derive.p1),
                    !.key2 = GenerateKey(derive.query, derive.p2),
                    !.ekey1 = ExecuteQueryCacheKey(derive.query, derive.p1),
                    !.ekey2 = ExecuteQueryCacheKey(derive.query, derive.p2)]
    /\ UNCHANGED <<pc, redis_client, disk_cache, redisStore, diskStore, now, init,
                   primaryFailed, connection, last,
                   calls, sessions>>

NextKey == DeriveKeys

SpecKey == InitKey /\ [][NextKey]_vars

\* Two item lists hold the same key/value pairs.
SameMapping(p1, p2) ==
    {p1[i] : i \in DOMAIN p1} = {p2[i] : i \in DOMAIN p2}

----------------------------------------------------------------------------
\* execute_paginated_query against a warehouse that answers the text it is
\* sent: a table of which `matching` rows satisfy the base query.

\* The i-th row of the table.
TableRow(i) == <<[col |-> "c", t |-> "int", v |-> i]>>

\* The integer a numeral of the sent text stands for.
NumberOf(tok) == CHOOSE n \in 0..(4 * max_page_size) : ToString(n) = tok

\* cursor.execute(text); fetchall(): the rows the statement selects, all the
\* matching rows when it has no LIMIT and the window of `LIMIT l OFFSET o;`
\* when it ends with one.
WarehouseRows(matching, text) ==
    IF HasLimit(text)
    THEN LET l == NumberOf(text[Len(text) - 5])
             o == NumberOf(text[Len(text) - 1])
             n == Max(0, Min(l, matching - o))
         IN  [i \in 1..n |-> TableRow(o + i)]
    ELSE [i \in 1..matching |-> TableRow(i)]

\* The text a paginated call sends.
PagedText(query, page, page_size) ==
    ImplicitLimit(IF TextLen(query) > 1000
                  THEN add_pagination_to_query(query, page, page_size)
                  ELSE query)

\* Numbers of matching rows, pages and page sizes asked for: a page below 1,
\* a page size of 0 (the default) and one above max_page_size.
MatchingCounts == {0, 1, 5, 25, max_page_size + 60}
PagedPages == {0, 1, 2, 3}
PagedSizes == {0, 1, 10, max_page_size + 50}
PagedQueries == {QShort, QLong}

PagedQuery ==
    /\ pc = "ready"
    /\ \E query \in PagedQueries, page \in PagedPages, page_size \in PagedSizes,
          matching \in MatchingCounts :
         \E env \in {CalmEnv(WarehouseRows(matching, PagedText(query, page, page_size)))} :
         \E o \in {execute_paginated_query(redisStore, diskStore, connection, query,
                                           page, page_size, FALSE, default_ttl, env)} :
             /\ last' = [Observe("execute_paginated_query",
                                 GenerateKey(query, CacheParams(page, page_size)), o)
                           EXCEPT !.query = query, !.use_cache = FALSE, !.ttl = default_ttl,
                                  !.page = page, !.page_size = page_size,
                                  !.matching = matching]
             /\ Commit(o)

NextPaged == Construct \/ PagedQuery

SpecPaged == Init /\ [][NextPaged]_vars

----------------------------------------------------------------------------
\* The request threads of the server on the one DatabricksClient instance
\* (databricks_client, shared by every route): each statement of a call that
\* reads or writes self.connection, or that uses a connection, is a step.

Threads == {1, 2}

\* sql.connect hands out at most this many connections.
MaxSessions == 3
SessionNames == <<"s1", "s2", "s3", "s4", "s5">>
SessionIds == {SessionNames[i] : i \in 1..MaxSessions}

\* The calls the routes make, and the timeout arguments they are given.
ConnOps == {"execute_query", "execute_query_unlimited", "test_connection"}
CallTimeouts == {1, 2}

Idle == [pc |-> "idle", op |-> "none", conn |-> NoClient, outcome |-> "none", timeout |-> 0]

InitConn ==
    /\ pc = "ready"
    /\ redis_client = NoClient
    /\ disk_cache = NoClient
    /\ redisStore = <<>>
    /\ diskStore = <<>>
    /\ now = 0
    /\ init = NoInit
    /\ primaryFailed = FALSE
    /\ derive = NoDerive
    /\ connection = NoClient
    /\ last = NoObs
    /\ calls = [t \in Threads |-> Idle]
    /\ sessions = [i \in SessionIds |-> "free"]

\* The cache service and the record of atomic calls take no part.
ServiceUnchanged ==
    UNCHANGED <<pc, redis_client, disk_cache, redisStore, diskStore, now, init,
                primaryFailed, derive, last>>

\* The call of thread t moves to position p.
At(t, p) == [calls EXCEPT ![t].pc = p]

\* An exception leaves the call: execute_query and execute_query_unlimited
\* re-raise it to their caller; test_connection catches it, will return
\* False, and goes on to its `finally: self.disconnect()`.
Raised(t) ==
    IF calls[t].op = "test_connection"
    THEN [calls EXCEPT ![t].pc = "tc_close", ![t].outcome = "False"]
    ELSE [calls EXCEPT ![t].pc = "idle", ![t].outcome = "raised"]

\* The rows are fetched and the cursor is closed: the call returns, and
\* test_connection goes on to its finally.
Returned(t) ==
    IF calls[t].op = "test_connection"
    THEN [calls EXCEPT ![t].pc = "tc_close", ![t].outcome = "True"]
    ELSE [calls EXCEPT ![t].pc = "idle", ![t].outcome = "ok"]

\* A route calls the client; timeout is accepted and used nowhere.
Begin(t) ==
    /\ calls[t].pc = "idle"
    /\ \E op \in ConnOps, timeout \in CallTimeouts :
         calls' = [calls EXCEPT ![t] =
                     [pc |-> IF op = "test_connection" THEN "tc_connect" ELSE "check",
                      op |-> op, conn |-> NoClient, outcome |-> "none", timeout |-> timeout]]
    /\ UNCHANGED <<connection, sessions>>
    /\ ServiceUnchanged

\* `if not self.connection:`
CheckConnection(t) ==
    /\ calls[t].pc = "check"
    /\ calls' = At(t, IF connection = NoClient THEN "connect" ELSE "cursor")
    /\ UNCHANGED <<connection, sessions>>
    /\ ServiceUnchanged

\* connect(): self.connection = sql.connect(...), whatever self.connection
\* held; called by execute_query after its check and by test_connection
\* without a check.  sql.connect may raise.
Connect(t) ==
    /\ calls[t].pc \in {"connect", "tc_connect"}
    /\ \/ /\ \E i \in 1..MaxSessions :
               /\ sessions[SessionNames[i]] = "free"
               /\ \A j \in 1..(i - 1) : sessions[SessionNames[j]] /= "free"
               /\ sessions' = [sessions EXCEPT ![SessionNames[i]] = "open"]
               /\ connection' = SessionNames[i]
          /\ calls' = At(t, IF calls[t].pc = "tc_connect" THEN "check" ELSE "cursor")
       \/ /\ calls' = Raised(t)
          /\ UNCHANGED <<connection, sessions>>
    /\ ServiceUnchanged

\* `cursor = self.connection.cursor()`: raises when self.connection is None
\* by now, or is a connection that is closed or broken.
Cursor(t) ==
    /\ calls[t].pc = "cursor"
    /\ IF connection /= NoClient /\ sessions[connection] = "open"
       THEN calls' = [calls EXCEPT ![t].pc = "execute", ![t].conn = connection]
       ELSE calls' = Raised(t)
    /\ UNCHANGED <<connection, sessions>>
    /\ ServiceUnchanged

\* cursor.execute(query) sends the statement.
Execute(t) ==
    /\ calls[t].pc = "execute"
    /\ calls' = IF sessions[calls[t].conn] = "open" THEN At(t, "waiting") ELSE Raised(t)
    /\ UNCHANGED <<connection, sessions>>
    /\ ServiceUnchanged

\* The warehouse answers the statement, with rows or with an error, or the
\* network reports that the connection is broken.
Respond(t) ==
    /\ calls[t].pc = "waiting"
    /\ sessions[calls[t].conn] /= "closed"
    /\ \/ /\ sessions[calls[t].conn] = "open"
          /\ calls' = At(t, "fetch")
       \/ calls' = Raised(t)
    /\ UNCHANGED <<connection, sessions>>
    /\ ServiceUnchanged

\* The connector raises in a call that waits on a connection that close()
\* has closed in this process.
Abort(t) ==
    /\ calls[t].pc = "waiting"
    /\ sessions[calls[t].conn] = "closed"
    /\ calls' = Raised(t)
    /\ UNCHANGED <<connection, sessions>>
    /\ ServiceUnchanged

\* cursor.description, cursor.fetchall(), cursor.close(), return results.
Fetch(t) ==
    /\ calls[t].pc = "fetch"
    /\ calls' = IF sessions[calls[t].conn] = "open" THEN Returned(t) ELSE Raised(t)
    /\ UNCHANGED <<connection, sessions>>
    /\ ServiceUnchanged

\* disconnect(): `if self.connection: self.connection.close()`
CloseConnection(t) ==
    /\ calls[t].pc = "tc_close"
    /\ IF connection = NoClient
       THEN /\ calls' = At(t, "idle")
            /\ UNCHANGED sessions
       ELSE /\ calls' = At(t, "tc_clear")
            /\ sessions' = [sessions EXCEPT ![connection] = "closed"]
    /\ UNCHANGED connection
    /\ ServiceUnchanged

\* disconnect(): `self.connection = None`
ClearConnection(t) ==
    /\ calls[t].pc = "tc_clear"
    /\ connection' = NoClient
    /\ calls' = At(t, "idle")
    /\ UNCHANGED sessions
    /\ ServiceUnchanged

\* A connection breaks on the side of the warehouse: the session expires or
\* the network drops it.
Break ==
    /\ \E id \in SessionIds :
         /\ sessions[id] = "open"
         /\ sessions' = [sessions EXCEPT ![id] = "broken"]
    /\ UNCHANGED <<connection, calls>>
    /\ ServiceUnchanged

\* A step of the code of thread t, which the interpreter takes when it can.
Step(t) ==
    \/ CheckConnection(t) \/ Connect(t) \/ Cursor(t) \/ Execute(t) \/ Abort(t)
    \/ Fetch(t) \/ CloseConnection(t) \/ ClearConnection(t)

NextConn ==
    \/ \E t \in Threads : Begin(t)
    \/ \E t \in Threads : Step(t)
    \/ \E t \in Threads : Respond(t)
    \/ Break

SpecConn == InitConn /\ [][NextConn]_vars

\* The threads run: a thread that can take a step of its code takes it.  The
\* warehouse owes no answer.
SpecConnLive == SpecConn /\ \A t \in Threads : WF_vars(Step(t))

----------------------------------------------------------------------------
\* The claims.

\* A get issued now, with no tier failing during the call.
GetNow(key) == CacheGetOn(redisStore, diskStore, key, FALSE, FALSE, FALSE)

\* A get issued now with the primary tier failing.
GetNowPrimaryDown(key) == CacheGetOn(redisStore, diskStore, key, TRUE, FALSE, FALSE)

EffectiveTtl(ttl) == IF ttl /= 0 THEN ttl ELSE default_ttl

CacheOps == {"get", "set", "clear"}

ClientOps == {"execute_query", "execute_query_unlimited", "execute_paginated_query"}

\* The call of `last`, issued once more now.
SameCallAgain ==
    execute_query(redisStore, diskStore, connection, last.query, last.parameters,
                  TRUE, last.ttl, CalmEnv(<<>>))

\* C1: with a cache tier working, an execute_query with use_cache on a key
\* that is not cached makes exactly one remote call and writes the result to
\* the cache, and the same call issued right after it returns the same rows
\* without a remote call.
C1_MissThenHit ==
    (/\ last.op = "execute_query"
     /\ last.use_cache /\ last.cached = PyNone
     /\ last.raised = "no" /\ ~last.redisFailed /\ ~last.diskFailed
     /\ (redis_client /= NoClient \/ disk_cache /= NoClient)
     /\ last.rows /= <<>>
     /\ last.at = now)
        => /\ last.executes = 1
           /\ (last.redisStored \/ last.diskStored)
           /\ SameCallAgain.raised = "no"
           /\ SameCallAgain.connects = 0 /\ SameCallAgain.executes = 0
           /\ SameCallAgain.ret \in {PyList(last.rows), JsonLoads(JsonDumps(PyList(last.rows)))}

\* C2: when use_cache is set and the cache read of the derived key is a hit,
\* execute_query, execute_query_unlimited and execute_paginated_query return
\* the cached value, and no connect and no cursor execute happens.
C2_HitSkipsRemote ==
    (last.op \in ClientOps /\ last.use_cache /\ last.cached /= PyNone)
        => /\ last.raised = "no"
           /\ last.ret = last.cached
           /\ last.connects = 0 /\ last.executes = 0 /\ last.sent = <<>>

\* A paginated call found its page in the cache and returned it without a
\* connect or an execute.
C2_Witness ==
    /\ last.op = "execute_paginated_query"
    /\ last.use_cache /\ last.cached /= PyNone
    /\ last.ret = last.cached /\ last.ret.kind = "dict" /\ Len(last.ret.items) > 0
    /\ last.connects = 0 /\ last.executes = 0

\* C11: clear_cache with a pattern given, on an available primary tier,
\* removes from the primary tier exactly the entries whose key matches the
\* pattern, leaves every other primary entry as it was, and leaves the whole
\* fallback tier as it was.
C11_PatternClearFrame ==
    [][(/\ last'.op = "clear" /\ now' = now /\ last'.at = now
        /\ last'.key /= <<>>
        /\ redis_client /= NoClient /\ ~last'.redisFailed)
       => (/\ last'.ok
           /\ DOMAIN redisStore' = {k \in DOMAIN redisStore : ~Contains(k, last'.key)}
           /\ \A k \in DOMAIN redisStore' : redisStore'[k] = redisStore[k]
           /\ diskStore' = diskStore)]_vars

\* A clear with the digest of one key as its pattern ran on the primary tier,
\* which still holds the entry of the other key and no entry that matches,
\* beside a fallback tier that holds an entry.
C11_Witness ==
    /\ last.op = "clear" /\ last.key = PatDigest(QShort) /\ last.usedRedis /\ last.ok
    /\ DOMAIN redisStore = {GenerateKey(QOther, <<>>)}
    /\ DOMAIN diskStore /= {}

\* C12: cache payloads round-trip losslessly: after a set that stored the
\* value, a get before expiry returns a value equal to the one written,
\* whichever tier serves the read.
C12_LosslessRoundTrip ==
    (/\ last.op = "set" /\ last.ok /\ last.raised = "no"
     /\ Truthy(last.data)
     /\ now < last.at + EffectiveTtl(last.ttl))
        => GetNow(last.key).ret = last.data

\* The LIMIT and OFFSET numbers at the end of a rewritten query.
LimitOf(text) == text[Len(text) - 5]
OffsetOf(text) == text[Len(text) - 1]
Numerals(lo, hi) == {ToString(n) : n \in lo..hi}

\* C13: whatever the integers page and page_size, the page size that
\* add_pagination_to_query and paginate_list use lies in 1..max_page_size and
\* the page number is at least 1: the LIMIT and the number of items returned
\* never exceed max_page_size and the offset is never negative.
C13_ClampedArguments ==
    /\ last.op = "add_pagination_to_query" =>
          /\ LimitOf(last.sent) \in Numerals(1, max_page_size)
          /\ OffsetOf(last.sent) \in Numerals(0, 3 * max_page_size)
    /\ (last.op = "paginate_list" /\ last.raised = "no") =>
          /\ last.ret.page.page_size \in 1..max_page_size
          /\ last.ret.page.current_page >= 1
          /\ Len(last.ret.items) <= max_page_size

\* ceil(total / size) for size > 0: the least number of pages that hold
\* `total` records.
PagesFor(total, size) ==
    CHOOSE n \in 0..total : n * size >= total /\ (n = 0 \/ (n - 1) * size < total)

\* C14: for every total_count >= 0, page and page_size,
\* create_pagination_metadata returns without raising; total_pages is
\* ceil(total_count / page_size) when page_size > 0 and 0 otherwise, has_next
\* holds exactly when page < total_pages, has_previous exactly when page > 1,
\* next_page is page + 1 when has_next and none otherwise, previous_page is
\* page - 1 when has_previous and none otherwise.
C14_MetadataTotal ==
    last.op = "create_pagination_metadata" =>
        /\ last.raised = "no"
        /\ LET m == last.ret.page
           IN  /\ m.total_pages = (IF last.page_size > 0
                                   THEN PagesFor(last.total_count, last.page_size) ELSE 0)
               /\ m.has_next <=> (last.page < m.total_pages)
               /\ m.has_previous <=> (last.page > 1)
               /\ m.next_page = (IF m.has_next THEN [none |-> FALSE, n |-> last.page + 1]
                                 ELSE [none |-> TRUE, n |-> 0])
               /\ m.previous_page = (IF m.has_previous THEN [none |-> FALSE, n |-> last.page - 1]
                                     ELSE [none |-> TRUE, n |-> 0])

\* The numbers that occur in the texts drawn.
NumberTokens == Numerals(-5, 3 * max_page_size) \cup {"15000"}

\* The places of a text where a bounding clause starts: the word LIMIT, a
\* blank and a number.
BoundingClauses(text) ==
    {i \in DOMAIN text :
        /\ IsLimit(text[i]) /\ i + 2 <= Len(text)
        /\ text[i + 1] = " "
        /\ text[i + 2] \in NumberTokens}

\* C15: query rewriting is idempotent: rewriting the rewritten query with the
\* same page and page_size gives the same text, which holds exactly one
\* bounding clause.
C15_RewriteIdempotent ==
    last.op = "add_pagination_to_query" =>
        /\ add_pagination_to_query(last.sent, last.page, last.page_size) = last.sent
        /\ Cardinality(BoundingClauses(last.sent)) = 1

\* The text of a query that precedes its trailing bounding clause (LIMIT n,
\* or LIMIT n OFFSET m, before any closing semicolon and whitespace), or the
\* whole text when it has none; without trailing semicolons and whitespace.
BeforeTrailingClause(query) ==
    LET t == RStrip(query, Whitespace \cup {";"})
        n == Len(t)
        cut == IF n >= 7 /\ IsLimit(t[n - 6]) /\ t[n - 5] = " " /\ t[n - 2] = "OFFSET"
               THEN SubSeq(t, 1, n - 7)
               ELSE IF n >= 3 /\ IsLimit(t[n - 2]) /\ t[n - 1] = " "
               THEN SubSeq(t, 1, n - 3)
               ELSE t
    IN  RStrip(cut, Whitespace \cup {";"})

\* The clause "\nLIMIT limit OFFSET offset;".
PageClause(limit, offset) ==
    <<"\n", "LIMIT", " ", ToString(limit), " ", "OFFSET", " ", ToString(offset), ";">>

\* C16: add_pagination_to_query removes only a bounding clause at the tail of
\* the query and appends one clause with the clamped page size as limit and
\* (clamped page - 1) * clamped page size as offset: the text before the
\* trailing clause, or the whole query when it has none, is preserved
\* wherever else the word LIMIT occurs.
C16_OnlyTrailingClauseRemoved ==
    (last.op = "add_pagination_to_query" /\ last.page_size >= 0) =>
        LET kept   == BeforeTrailingClause(last.query)
            size   == EffectivePageSize(last.page_size)
            clause == PageClause(size, (Max(1, last.page) - 1) * size)
            n      == Len(last.sent)
        IN  /\ n >= Len(kept) + Len(clause)
            /\ SubSeq(last.sent, 1, Len(kept)) = kept
            /\ SubSeq(last.sent, n - Len(clause) + 1, n) = clause

\* The elements of data at the indices start .. start + size - 1 (from 0)
\* that data has, in order.
Window(data, start, size) ==
    LET lo == Max(0, start)
        hi == Min(Len(data), start + size)
    IN  IF lo < hi THEN SubSeq(data, lo + 1, hi) ELSE <<>>

\* C17: for every list, page and page_size, paginate_list returns, without
\* raising, the elements at the indices from (page - 1) * page_size up to
\* but not including (page - 1) * page_size + page_size, clipped to the
\* list, in order (page and page_size as the function clamps them); a page
\* beyond the end is empty.
C17_SliceOfList ==
    last.op = "paginate_list" =>
        /\ last.raised = "no"
        /\ LET size == EffectivePageSize(last.page_size)
               page == Max(1, last.page)
           IN  last.ret.items = Window(last.data.items, (page - 1) * size, size)

\* The bound execute_query appends to a query that has none.
ImplicitBound(query) ==
    <<"\n", "LIMIT", " ",
      IF Contains(query, <<FilterIn>>) THEN "15000" ELSE "100", ";">>

\* C18: every text execute_query sends for a query of more than 2000
\* characters carries a bound: a query without an explicit bound gets
\* LIMIT 15000 when it contains 'WHERE INV_EXT_ID IN' and LIMIT 100 otherwise;
\* a query with an explicit bound or of at most 2000 characters is sent as it
\* is, and execute_query_unlimited always sends the text as it is.
C18_LongQueriesBounded ==
    /\ (last.op = "execute_query" /\ last.executes = 1) =>
          /\ TextLen(last.query) > 2000 => BoundingClauses(last.sent) /= {}
          /\ last.sent = (IF TextLen(last.query) > 2000 /\ BoundingClauses(last.query) = {}
                          THEN RStrip(last.query, {";"}) \o ImplicitBound(last.query)
                          ELSE last.query)
    /\ (last.op = "execute_query_unlimited" /\ last.executes = 1) =>
          last.sent = last.query

\* The call of `last`, issued once more now without any failure.
NextIdenticalCall ==
    IF last.op = "execute_query"
    THEN execute_query(redisStore, diskStore, connection, last.query, last.parameters,
                       last.use_cache, last.ttl, CalmEnv(<<>>))
    ELSE execute_query_unlimited(redisStore, diskStore, connection, last.query,
                                 last.use_cache, last.ttl, CalmEnv(<<>>))

\* C19: execute_query and execute_query_unlimited write a result to the cache
\* only when caching is enabled and the connector returned at least one row,
\* with the ttl the caller supplied; a call whose remote execution returned
\* no row writes nothing, and the next identical call contacts the connector
\* again.
C19_OnlyNonEmptyResultsCached ==
    last.op \in {"execute_query", "execute_query_unlimited"} =>
        /\ last.writes = (IF last.use_cache /\ last.rows /= <<>> THEN 1 ELSE 0)
        /\ last.writes = 1 => last.wttl = last.ttl
        /\ (last.writes = 1 /\ last.redisStored) =>
              (/\ last.key \in DOMAIN redisStore
               /\ redisStore[last.key] = [val |-> JsonDumps(PyList(last.rows)),
                                          exp |-> last.at + last.ttl])
        /\ (/\ last.executes = 1 /\ last.raised = "no" /\ last.rows = <<>>
            /\ ~last.redisFailed /\ ~last.diskFailed) =>
              (/\ ~last.redisStored /\ ~last.diskAttempted
               /\ NextIdenticalCall.executes = 1)

\* C20: when the connector fails to connect or to execute, execute_query,
\* execute_query_unlimited and execute_paginated_query raise that error, return
\* no value, and write nothing to the cache: both stores are as before the
\* call.
C20_RemoteFailurePropagates ==
    [][(last'.op \in ClientOps /\ last'.failed /= "no") =>
          /\ last'.raised = "remote"
          /\ last'.ret = PyNone
          /\ last'.writes = 0
          /\ redisStore' = redisStore
          /\ diskStore' = diskStore]_vars

\* A paginated call with caching on a process whose primary store holds an
\* entry found the warehouse failing at execute, and raised.
C20_Witness ==
    /\ last.op = "execute_paginated_query" /\ last.use_cache
    /\ last.failed = "execute" /\ last.raised = "remote"
    /\ last.usedRedis
    /\ DOMAIN redisStore /= {}

\* C3: the derived key does not depend on the insertion order of the
\* parameters: mappings with the same key/value pairs give the same key, in
\* _generate_key and in the key string of execute_query.
C3_OrderIndependentKey ==
    (derive.done /\ SameMapping(derive.p1, derive.p2))
        => (derive.key1 = derive.key2 /\ derive.ekey1 = derive.ekey2)

\* C4: with the primary tier absent or failing and the fallback tier
\* initialized, set returns success and a get that follows before expiry
\* returns the value written, from the first write into an empty store on.
C4_FallbackRoundTrip ==
    (/\ last.op = "set"
     /\ last.raised = "no"
     /\ (redis_client = NoClient \/ last.redisFailed)
     /\ disk_cache /= NoClient
     /\ Truthy(last.data)
     /\ now < last.at + EffectiveTtl(last.ttl))
        => (last.ok /\ GetNowPrimaryDown(last.key).ret = last.data)

C6_SetAttemptsEachTier ==
    (last.op = "set" /\ last.raised = "no")
        => /\ (redis_client /= NoClient => last.usedRedis)
           /\ (disk_cache /= NoClient => last.diskAttempted)
           /\ (last.ok <=> (last.redisStored \/ last.diskStored))

\* C7: after a set with ttl > 0 on a working tier, a get before write time +
\* ttl returns the value (as the tier encodes it) and a get at or after
\* write time + ttl returns absent.
C7_ExpiryAtReadTime ==
    (/\ last.op = "set"
     /\ last.ttl > 0
     /\ Truthy(last.data)
     /\ last.raised = "no" /\ ~last.redisFailed
     /\ (redis_client /= NoClient \/ disk_cache /= NoClient))
        => IF now < last.at + last.ttl
           THEN GetNow(last.key).ret \in {last.data, JsonLoads(JsonDumps(last.data))}
           ELSE GetNow(last.key).ret = PyNone

\* C8: whatever fails in a cache tier, get, set and clear_cache return
\* normally; none raises.
C8_NoCacheErrorEscapes ==
    last.op \in CacheOps => last.raised = "no"

\* C9, as first stated: once the primary tier has failed, at construction or
\* on any request, no later get, set or clear_cache contacts it.
C9_NoContactAfterAnyFailure ==
    [][(primaryFailed /\ last' /= last /\ last'.op \in CacheOps) => ~last'.usedRedis]_vars

\* C9, amended: a primary tier that failed at construction is absent for
\* good, and no later get, set or clear_cache contacts it; a failure on a
\* request does not disable it: the client is kept and every later get and
\* set contacts the primary tier again.
C9_AbsentOnlyAfterConstructionFailure ==
    pc = "ready" =>
        /\ init.redisFailed =>
              (redis_client = NoClient /\ (last.op \in CacheOps => ~last.usedRedis))
        /\ ~init.redisFailed =>
              (redis_client /= NoClient /\ (last.op \in {"get", "set"} => last.usedRedis))

\* The primary tier failed at construction and a later get went to the
\* fallback tier without contacting it.
C9_Witness ==
    /\ pc = "ready" /\ init.redisFailed
    /\ last.op = "get" /\ ~last.usedRedis /\ last.usedDisk

\* C10, as first stated: after both initializations of the fallback tier
\* failed, every get returns absent and every set returns failure.
C10_DisabledMeansPureMisses ==
    (pc = "ready" /\ init.retryFailed)
        => /\ (last.op = "get" => last.ret = PyNone)
           /\ (last.op = "set" => ~last.ok)

\* C10, amended: the fallback tier is initialized at most twice; a first
\* failure purges the files and retries exactly once; when the retry fails
\* too the tier is disabled, construction still completes, and from then on
\* no get or set consults the fallback tier: with the primary tier absent
\* as well every get returns absent and every set returns failure, and
\* otherwise the primary tier alone serves them.
C10_FallbackInitAtMostTwice ==
    /\ init.diskInits <= 2
    /\ pc = "ready" =>
          /\ init.diskInits = (IF init.firstFailed THEN 2 ELSE 1)
          /\ init.purged <=> init.firstFailed
          /\ (disk_cache = NoClient) <=> init.retryFailed
    /\ (pc = "ready" /\ init.retryFailed /\ last.op \in CacheOps) =>
          /\ last.raised = "no"
          /\ ~last.usedDisk
          /\ (last.op = "get" /\ ~last.usedRedis) => last.ret = PyNone
          /\ (last.op = "set") => (last.ok <=> last.redisStored)
          /\ (redis_client = NoClient /\ last.op = "get") => last.ret = PyNone
          /\ (redis_client = NoClient /\ last.op = "set") => ~last.ok

\* Both initializations failed, construction completed, and a set on the
\* process without any tier returned failure.
C10_Witness ==
    /\ pc = "ready" /\ init.diskInits = 2 /\ init.retryFailed
    /\ redis_client = NoClient
    /\ last.op = "set" /\ ~last.ok

\* The paginated call of `last`, issued once more now without any failure.
SamePageAgain ==
    execute_paginated_query(redisStore, diskStore, connection, last.query, last.page,
                            last.page_size, last.use_cache, last.ttl, CalmEnv(<<>>))

\* C25: execute_paginated_query with use_cache writes no cache entry for a
\* page whose remote execution produced no row, on either path, so the
\* identical call that follows is not served an empty page from the cache.
C25_EmptyPageNotCached ==
    (/\ last.op = "execute_paginated_query" /\ last.use_cache
     /\ last.raised = "no" /\ last.executes = 1 /\ last.rows = <<>>)
        => /\ last.writes = 0
           /\ ~last.redisStored /\ ~last.diskStored
           /\ SamePageAgain.cached = PyNone
           /\ SamePageAgain.executes = 1

\* C26: after set(key, v2) returned success, every get(key) issued before the
\* expiry and before a further set or clear returns v2, whether the primary
\* tier answers at the get or fails.
C26_ReadYourWrites ==
    (last.op = "set" /\ last.ok /\ now < last.at + EffectiveTtl(last.ttl))
        => /\ GetNow(last.key).ret = last.data
           /\ GetNowPrimaryDown(last.key).ret = last.data

\* C27: after clear_cache() without a pattern returned success, a get of any
\* key written earlier returns absent, and each available tier holds no
\* entry.
C27_FullClearEmpties ==
    (last.op = "clear" /\ last.key = <<>> /\ last.ok)
        => /\ \A query \in ServiceQueries : GetNow(GenerateKey(query, <<>>)).ret = PyNone
           /\ redis_client /= NoClient => redisStore = <<>>
           /\ disk_cache /= NoClient => diskStore = <<>>

\* The cache names under which the two entry points keep the rows of query.
BoundedKey(query) == GenerateKey(ExecuteQueryCacheKey(query, <<>>), <<>>)
UnboundedKey(query) == GenerateKey(query, <<>>)

\* What the two tiers hold under a key.
EntriesUnder(key) == <<RedisGet(redisStore, key), Held(diskStore, key)>>

\* C28: for every query text, the rows execute_query cached are never what
\* execute_query_unlimited returns from the cache and the other way round:
\* the two derive different keys for the same text, each reads and writes
\* under its own key, and neither changes what the tiers hold under the key
\* of the other.
C28_BoundedUnboundedApart ==
    [][\A query \in ClientQueries :
          /\ BoundedKey(query) /= UnboundedKey(query)
          /\ (last'.op = "execute_query" /\ last'.query = query) =>
                /\ last'.key = BoundedKey(query)
                /\ EntriesUnder(UnboundedKey(query))' = EntriesUnder(UnboundedKey(query))
          /\ (last'.op = "execute_query_unlimited" /\ last'.query = query) =>
                /\ last'.key = UnboundedKey(query)
                /\ EntriesUnder(BoundedKey(query))' = EntriesUnder(BoundedKey(query))]_vars

\* execute_query_unlimited missed and went to the warehouse although the
\* primary store holds the rows execute_query cached for the same text.
C28_Witness ==
    /\ last.op = "execute_query_unlimited" /\ last.use_cache /\ last.usedRedis
    /\ ~last.redisFailed
    /\ last.cached = PyNone /\ last.executes = 1
    /\ BoundedKey(last.query) \in DOMAIN redisStore
    /\ UnboundedKey(last.query) \notin DOMAIN redisStore

\* The metadata of the page a paginated call returned.
Meta == last.ret.page

\* C24: the metadata execute_paginated_query returns has total_count equal to
\* the number of rows matching the base query and total_pages equal to
\* ceil(total_count / page_size), on the path bounded at the source and on the
\* in-memory path; 25 matching rows, page 2, page_size 10 give total_pages 3,
\* has_next, next_page 3 and previous_page 1.
C24_TotalsOfBaseQuery ==
    (last.op = "execute_paginated_query" /\ last.raised = "no")
        => /\ Meta.total_count = last.matching
           /\ Meta.page_size > 0 => Meta.total_pages = PagesFor(Meta.total_count, Meta.page_size)
           /\ (last.matching = 25 /\ last.page = 2 /\ last.page_size = 10) =>
                 /\ Meta.total_pages = 3 /\ Meta.has_next /\ Meta.has_previous
                 /\ Meta.next_page = [none |-> FALSE, n |-> 3]
                 /\ Meta.previous_page = [none |-> FALSE, n |-> 1]

\* C30: for every page and page_size asked for, the page_size and
\* current_page of the metadata are the clamped values used in the LIMIT and
\* OFFSET of the rewritten query or in the in-memory slice, and the page holds
\* no more rows than the page_size reported.
C30_MetadataMatchesBound ==
    (last.op = "execute_paginated_query" /\ last.raised = "no")
        => /\ Meta.page_size = EffectivePageSize(last.page_size)
           /\ Meta.current_page = Max(1, last.page)
           /\ Len(last.ret.items) <= Meta.page_size
           /\ TextLen(last.query) > 1000 =>
                 /\ LimitOf(last.sent) = ToString(Meta.page_size)
                 /\ OffsetOf(last.sent) = ToString((Meta.current_page - 1) * Meta.page_size)
           /\ TextLen(last.query) <= 1000 =>
                 last.ret.items = Window(last.rows, (Meta.current_page - 1) * Meta.page_size,
                                         Meta.page_size)

\* The query of thread t is in flight: it holds a cursor of calls[t].conn.
InFlight(t) == calls[t].pc \in {"execute", "waiting", "fetch"}

\* C21: concurrent callers of the one client never interfere on its
\* connection: while the query of a call is in flight, the connection it
\* runs on is not closed, and not replaced as the connection of the client,
\* by another call.
C21_NoInterference ==
    \A t \in Threads :
        InFlight(t) => /\ sessions[calls[t].conn] /= "closed"
                       /\ connection = calls[t].conn

\* C22: every execute_query and execute_query_unlimited call given a timeout
\* eventually returns or raises, even when the warehouse never answers.
C22_NoCallBlocksForever ==
    \A t \in Threads :
        (calls[t].op \in {"execute_query", "execute_query_unlimited"} /\ calls[t].pc = "waiting")
            ~> (calls[t].pc = "idle")

\* An execute_query that starts now, alone, with the warehouse reachable,
\* succeeds: it connects when the client holds no connection, and the
\* connection the client holds is usable otherwise.
Serviceable == connection = NoClient \/ sessions[connection] = "open"

\* C23: after a call has failed, with no call running, a later execute_query
\* issued while the warehouse is reachable succeeds: the client is not left
\* on a dead connection.
C23_ServesAfterFailure ==
    (/\ \A t \in Threads : calls[t].pc = "idle"
     /\ \E t \in Threads : calls[t].outcome \in {"raised", "False"})
        => Serviceable

\* The connections that were opened and not closed.
NotClosed == {id \in SessionIds : sessions[id] \in {"open", "broken"}}

\* C29: the client holds at most one open connection at any time: a
\* connection is opened only when none is open, and no connection that is
\* not closed is overwritten in self.connection.
C29_AtMostOneConnection ==
    [][/\ Cardinality(NotClosed') <= 1
       /\ (connection /= NoClient /\ connection' /= connection)
             => sessions'[connection] = "closed"]_vars

====
